---- MODULE Spec2Model ----
(***************************************************************************)
(* A model of scripts/build_char_index.py: read_wordfreq, build_index and  *)
(* main.                                                                   *)
(*                                                                         *)
(* A string is a sequence of code points (natural numbers) and a           *)
(* character is a string of length 1, so Python's string comparison is the *)
(* lexicographic order on sequences.  A dict is a sequence of key/value    *)
(* records in insertion order (Python dicts keep insertion order, and      *)
(* sorted() is stable, so that order decides ties).                        *)
(***************************************************************************)
EXTENDS Integers, Sequences, FiniteSets, TLC

(***************************************************************************)
(* Bounds of the model.                                                    *)
(***************************************************************************)
MaxRows == 3
MaxFreq == 1
MaxTopN == 2

(***************************************************************************)
(* Input alphabets.  1, 2, 3 occur in corpus words; 4 occurs in no word.   *)
(* With 1 = an, 2 = xin, 3 = qing: <<1,2>> is "anxin", <<2,3>> "xinqing".  *)
(***************************************************************************)
Words == {<<>>, <<2>>, <<1, 2>>, <<2, 3>>}
Freqs == 0..MaxFreq
TargetLists == {<< <<4>>, <<2>> >>, << <<1>>, <<3>> >>, << <<2>>, <<2>> >>}
Records == [word : Words, freq : Freqs]

VARIABLES
  pc,        \* position in the function being run
  chars,     \* build_index: the chars argument (list of characters)
  df_words,  \* build_index: the df_words argument (rows word, freq)
  top_n,     \* build_index: the top_n argument
  df_sorted, \* build_index: df_words.sort_values('freq', ascending=False)
  i,         \* build_index: index of the next row of df_sorted
  bychar,    \* build_index: char -> dict(word -> freq)
  k,         \* build_index: index of the next element of chars
  out,       \* build_index: the mapping returned
  df_words2, \* second call of build_index: its df_words argument
  kind,      \* second call: how df_words2 was made from df_words
  out2,      \* second call: the mapping returned
  chars_exists, \* main: whether the file args.chars exists
  lines,     \* main: the lines of the file args.chars
  convert,   \* main: args.convert
  opencc,    \* the module-level opencc: "t2s" or "none" (import failed)
  warned,    \* main: whether the warning about bad lines was printed
  out_file,  \* the file args.out: "untouched" or "written"
  path_exists, \* read_wordfreq: whether the file at path exists
  table,     \* read_wordfreq: the sheet below the two skipped rows
  df,        \* read_wordfreq: the DataFrame being worked on
  word_col,  \* read_wordfreq: the label chosen for the words
  freq_col,  \* read_wordfreq: the label chosen for the frequencies
  err        \* the exception raised, "none" if none

vars == <<pc, chars, df_words, top_n, df_sorted, i, bychar, k, out,
          df_words2, kind, out2, path_exists, table, df, word_col, freq_col, err,
          chars_exists, lines, convert, opencc, warned, out_file>>

mainVars == <<chars_exists, lines, convert, opencc, warned, out_file>>

readerVars == <<path_exists, table, df, word_col, freq_col, err>>

indexVars == <<chars, df_words, top_n, df_sorted, i, bychar, k, out>>
againVars == <<df_words2, kind, out2>>

(***************************************************************************)
(* Helpers.                                                                *)
(***************************************************************************)
Range(s) == {s[j] : j \in DOMAIN s}

Min(a, b) == IF a < b THEN a ELSE b

Max(a, b) == IF a > b THEN a ELSE b

SeqsUpTo(S, n) == UNION {[1..m -> S] : m \in 0..n}

RemoveAt(s, j) == [m \in 1..(Len(s) - 1) |-> IF m < j THEN s[m] ELSE s[m + 1]]

\* Python's str < str: lexicographic on code points, a proper prefix first.
RECURSIVE LexLess(_, _)
LexLess(a, b) ==
  IF b = <<>> THEN FALSE
  ELSE IF a = <<>> THEN TRUE
  ELSE IF Head(a) # Head(b) THEN Head(a) < Head(b)
  ELSE LexLess(Tail(a), Tail(b))

\* set(w): the characters of w
CharsOf(w) == {<<w[j]>> : j \in DOMAIN w}

(***************************************************************************)
(* df_words.sort_values('freq', ascending=False).  The default kind is     *)
(* 'quicksort', which pandas documents as not stable: the rows come out by *)
(* non-increasing freq, rows of equal freq in an order the build decides.  *)
(***************************************************************************)
RECURSIVE SortOutcomes(_)
SortOutcomes(rows) ==
  IF rows = <<>> THEN {<<>>}
  ELSE LET top == CHOOSE f \in {rows[j].freq : j \in DOMAIN rows} :
                    \A j \in DOMAIN rows : rows[j].freq <= f
       IN UNION {{<<rows[j]>> \o rest : rest \in SortOutcomes(RemoveAt(rows, j))} :
                  j \in {m \in DOMAIN rows : rows[m].freq = top}}

(***************************************************************************)
(* dict operations on a sequence of [word, freq] items.                    *)
(***************************************************************************)
DictHas(d, w) == \E j \in DOMAIN d : d[j].word = w

\* d.get(w, default)
DictGet(d, w, default) ==
  IF DictHas(d, w) THEN d[CHOOSE j \in DOMAIN d : d[j].word = w].freq ELSE default

\* d[w] = f : an existing key keeps its position, a new key goes last
DictSet(d, w, f) ==
  IF DictHas(d, w)
  THEN [j \in DOMAIN d |-> IF d[j].word = w THEN [word |-> w, freq |-> f] ELSE d[j]]
  ELSE Append(d, [word |-> w, freq |-> f])

\* bychar[ch] on the defaultdict: a missing key reads as an empty dict
ByCharGet(bc, ch) == IF ch \in DOMAIN bc THEN bc[ch] ELSE <<>>

\* a variant of InTarget: the test on target_chars left out
InTargetAny(ch, target_chars) == TRUE

\* if ch in target_chars
InTarget(ch, target_chars) == ch \in target_chars

\* bychar[ch][w] = max(bychar[ch].get(w, 0), f)
RecordMax(bc, ch, w, f) ==
  LET d == ByCharGet(bc, ch)
  IN (ch :> DictSet(d, w, Max(DictGet(d, w, 0), f))) @@ bc

\* for ch in set(w): if ch in target_chars: ...   (one dict per ch, so the
\* iteration order of the set does not matter)
RECURSIVE RecordChars(_, _, _, _)
RecordChars(bc, S, w, f) ==
  IF S = {} THEN bc
  ELSE LET ch == CHOOSE c \in S : TRUE
       IN RecordChars(RecordMax(bc, ch, w, f), S \ {ch}, w, f)

\* the body of the loop over df_sorted.iterrows()
AggregateRow(bc, row, target_chars) ==
  IF row.word = <<>> THEN bc
  ELSE RecordChars(bc, {ch \in CharsOf(row.word) : InTarget(ch, target_chars)},
                   row.word, row.freq)

\* sorted(words.items(), key=lambda t: -t[1]) : stable, by descending freq
RECURSIVE SortedItems(_)
SortedItems(d) ==
  IF d = <<>> THEN <<>>
  ELSE LET top == CHOOSE f \in {d[j].freq : j \in DOMAIN d} :
                    \A j \in DOMAIN d : d[j].freq <= f
           first == CHOOSE j \in DOMAIN d :
                      d[j].freq = top /\ \A m \in 1..(j - 1) : d[m].freq # top
       IN <<d[first]>> \o SortedItems(RemoveAt(d, first))

\* a variant of SliceTo: the slice left out
SliceToWhole(s, n) == s

\* s[:n]
SliceTo(s, n) ==
  IF n >= 0 THEN SubSeq(s, 1, Min(n, Len(s)))
  ELSE SubSeq(s, 1, Max(Len(s) + n, 0))

\* [w for w, freq in sorted(...)[:top_n]]
TopWords(d, n) ==
  LET top == SliceTo(SortedItems(d), n)
  IN [j \in DOMAIN top |-> top[j].word]

\* a variant of ProduceChar: no key for a character without words
ProduceCharSkipEmpty(o, bc, ch, n) ==
  LET words == ByCharGet(bc, ch)
  IN IF words = <<>> THEN o
     ELSE (ch :> TopWords(words, n)) @@ o

\* the body of the loop "for ch in chars" that fills out
ProduceChar(o, bc, ch, n) ==
  LET words == ByCharGet(bc, ch)
  IN IF words = <<>> THEN (ch :> <<>>) @@ o
     ELSE (ch :> TopWords(words, n)) @@ o

EmptyMap == [c \in {} |-> <<>>]

\* the variables of main while it is not running
MainIdle ==
  /\ chars_exists = TRUE
  /\ lines = <<>>
  /\ convert = FALSE
  /\ opencc = "none"
  /\ warned = FALSE
  /\ out_file = "untouched"

\* the variables of read_wordfreq while it is not running
ReaderIdle ==
  /\ path_exists = TRUE
  /\ table = <<>>
  /\ df = <<>>
  /\ word_col = <<>>
  /\ freq_col = <<>>
  /\ err = "none"

(***************************************************************************)
(* build_index, one step at a time (convert_to_simplified = False).        *)
(***************************************************************************)
InitIndex ==
  /\ pc = "sort"
  /\ chars \in TargetLists
  /\ df_words \in SeqsUpTo(Records, MaxRows)
  /\ top_n \in 1..MaxTopN
  /\ df_sorted = <<>>
  /\ i = 1
  /\ bychar = EmptyMap
  /\ k = 1
  /\ out = EmptyMap
  /\ df_words2 = <<>>
  /\ kind = "none"
  /\ out2 = EmptyMap
  /\ ReaderIdle
  /\ MainIdle

SortRows ==
  /\ pc = "sort"
  /\ df_sorted' \in SortOutcomes(df_words)
  /\ pc' = "aggregate"
  /\ UNCHANGED <<chars, df_words, top_n, i, bychar, k, out, againVars, readerVars, mainVars>>

AggregateStep ==
  /\ pc = "aggregate"
  /\ i <= Len(df_sorted)
  /\ bychar' = AggregateRow(bychar, df_sorted[i], Range(chars))
  /\ i' = i + 1
  /\ UNCHANGED <<pc, chars, df_words, top_n, df_sorted, k, out, againVars, readerVars, mainVars>>

AggregateEnd ==
  /\ pc = "aggregate"
  /\ i > Len(df_sorted)
  /\ pc' = "produce"
  /\ UNCHANGED <<chars, df_words, top_n, df_sorted, i, bychar, k, out, againVars, readerVars, mainVars>>

ProduceStep ==
  /\ pc = "produce"
  /\ k <= Len(chars)
  /\ out' = ProduceChar(out, bychar, chars[k], top_n)
  /\ k' = k + 1
  /\ UNCHANGED <<pc, chars, df_words, top_n, df_sorted, i, bychar, againVars, readerVars, mainVars>>

ReturnIndex ==
  /\ pc = "produce"
  /\ k > Len(chars)
  /\ pc' = "done"
  /\ UNCHANGED <<chars, df_words, top_n, df_sorted, i, bychar, k, out, againVars, readerVars, mainVars>>

NextIndex ==
  \/ SortRows
  \/ AggregateStep
  \/ AggregateEnd
  \/ ProduceStep
  \/ ReturnIndex

SpecIndex == InitIndex /\ [][NextIndex]_vars

(***************************************************************************)
(* build_index as a whole: the two loops, given the sorted rows.           *)
(***************************************************************************)
RECURSIVE AggregateFrom(_, _, _, _)
AggregateFrom(bc, rows, j, target_chars) ==
  IF j > Len(rows) THEN bc
  ELSE AggregateFrom(AggregateRow(bc, rows[j], target_chars), rows, j + 1, target_chars)

Aggregate(rows, target_chars) == AggregateFrom(EmptyMap, rows, 1, target_chars)

RECURSIVE ProduceFrom(_, _, _, _, _)
ProduceFrom(o, bc, cs, j, n) ==
  IF j > Len(cs) THEN o
  ELSE ProduceFrom(ProduceChar(o, bc, cs[j], n), bc, cs, j + 1, n)

Produce(bc, cs, n) == ProduceFrom(EmptyMap, bc, cs, 1, n)

\* the mappings build_index(cs, rows, n) can return
BuildOutcomes(cs, rows, n) ==
  {Produce(Aggregate(s, Range(cs)), cs, n) : s \in SortOutcomes(rows)}

(***************************************************************************)
(* Two calls of build_index with the same chars and top_n: the second on   *)
(* the rows of the first in another order, or with one row repeated.       *)
(***************************************************************************)
Swap(s, a, b) ==
  [j \in DOMAIN s |-> IF j = a THEN s[b] ELSE IF j = b THEN s[a] ELSE s[j]]

InsertAt(s, p, r) == SubSeq(s, 1, p) \o <<r>> \o SubSeq(s, p + 1, Len(s))

InitAgain ==
  /\ pc = "first"
  /\ chars \in TargetLists
  /\ df_words \in SeqsUpTo(Records, MaxRows)
  /\ top_n \in 1..MaxTopN
  /\ df_sorted = <<>>
  /\ i = 1
  /\ bychar = EmptyMap
  /\ k = 1
  /\ out = EmptyMap
  /\ df_words2 = <<>>
  /\ kind = "none"
  /\ out2 = EmptyMap
  /\ ReaderIdle
  /\ MainIdle

FirstCall ==
  /\ pc = "first"
  /\ \E s \in SortOutcomes(df_words) :
       /\ df_sorted' = s
       /\ bychar' = Aggregate(s, Range(chars))
       /\ out' = Produce(Aggregate(s, Range(chars)), chars, top_n)
  /\ i' = Len(df_words) + 1
  /\ k' = Len(chars) + 1
  /\ pc' = "second"
  /\ UNCHANGED <<chars, df_words, top_n, againVars, readerVars, mainVars>>

SecondCallPermuted ==
  /\ pc = "second"
  /\ \E a \in DOMAIN df_words : \E b \in DOMAIN df_words :
       /\ a < b
       /\ df_words2' = Swap(df_words, a, b)
       /\ out2' \in BuildOutcomes(chars, Swap(df_words, a, b), top_n)
  /\ kind' = "permuted"
  /\ pc' = "compared"
  /\ UNCHANGED <<indexVars, readerVars, mainVars>>

SecondCallDuplicate ==
  /\ pc = "second"
  /\ \E j \in DOMAIN df_words : \E p \in 0..Len(df_words) :
       /\ df_words2' = InsertAt(df_words, p, df_words[j])
       /\ out2' \in BuildOutcomes(chars, InsertAt(df_words, p, df_words[j]), top_n)
  /\ kind' = "duplicate"
  /\ pc' = "compared"
  /\ UNCHANGED <<indexVars, readerVars, mainVars>>

NextAgain ==
  \/ FirstCall
  \/ SecondCallPermuted
  \/ SecondCallDuplicate

SpecAgain == InitAgain /\ [][NextAgain]_vars

(***************************************************************************)
(* What the claims speak of, computed from the corpus itself.              *)
(***************************************************************************)
\* the aggregated frequency of w: the maximum freq over the rows of word w
AggFreq(w) ==
  LET fs == {df_words[j].freq : j \in {m \in DOMAIN df_words : df_words[m].word = w}}
  IN CHOOSE f \in fs : \A g \in fs : g <= f

\* the distinct non-empty corpus words that contain c
EligibleWords(c) ==
  {w \in {df_words[j].word : j \in DOMAIN df_words} : w # <<>> /\ c \in CharsOf(w)}

\* C1: at return, every list is sorted by descending aggregated frequency,
\* and words of equal aggregated frequency are in ascending lexicographic
\* order.
C1_SortedLexTieBreak ==
  pc = "done" =>
    \A c \in DOMAIN out : \A a \in DOMAIN out[c] : \A b \in DOMAIN out[c] :
      a < b =>
        \/ AggFreq(out[c][a]) > AggFreq(out[c][b])
        \/ /\ AggFreq(out[c][a]) = AggFreq(out[c][b])
           /\ LexLess(out[c][a], out[c][b])

\* C2: at return, the list of every target character has at most top_n
\* words, and exactly min(top_n, number of distinct non-empty corpus words
\* containing the character).
C2_LengthIsMin ==
  pc = "done" =>
    \A c \in Range(chars) :
      /\ c \in DOMAIN out
      /\ Len(out[c]) <= top_n
      /\ Len(out[c]) = Min(top_n, Cardinality(EligibleWords(c)))

C2_Witness ==
  /\ pc = "done"
  /\ \E c \in Range(chars) :
       Cardinality(EligibleWords(c)) > top_n /\ Len(out[c]) = top_n
  /\ \E c \in Range(chars) :
       Cardinality(EligibleWords(c)) < top_n /\ Len(out[c]) = Cardinality(EligibleWords(c))

WordBelongs(c, w) ==
  /\ w # <<>>
  /\ c \in CharsOf(w)
  /\ \E j \in DOMAIN df_words : df_words[j].word = w

\* C3: at every step of the loops and at return, every word stored in the
\* aggregation state or listed in the result under c is a non-empty corpus
\* word that contains c, and c is a target character (so a word with no
\* target character is stored nowhere).
C3_OnlyMatchingWords ==
  /\ \A c \in DOMAIN bychar :
       /\ c \in Range(chars)
       /\ \A j \in DOMAIN bychar[c] : WordBelongs(c, bychar[c][j].word)
  /\ \A c \in DOMAIN out :
       /\ c \in Range(chars)
       /\ \A j \in DOMAIN out[c] : WordBelongs(c, out[c][j])

C3_Witness ==
  /\ pc = "aggregate"
  /\ DOMAIN bychar # {}
  /\ \E j \in 1..(i - 1) :
       /\ df_sorted[j].word # <<>>
       /\ CharsOf(df_sorted[j].word) \cap Range(chars) = {}
  /\ \E j \in 1..(i - 1) :
       CharsOf(df_sorted[j].word) \ Range(chars) # {}
         /\ CharsOf(df_sorted[j].word) \cap Range(chars) # {}

\* C4: at return, the keys of the mapping are exactly the target
\* characters, and a target character in no non-empty corpus word has the
\* empty list.
C4_KeysAreTargets ==
  pc = "done" =>
    /\ DOMAIN out = Range(chars)
    /\ \A c \in Range(chars) : EligibleWords(c) = {} => out[c] = <<>>

C4_Witness ==
  /\ pc = "done"
  /\ df_words # <<>>
  /\ \E c \in Range(chars) : EligibleWords(c) = {} /\ out[c] = <<>>
  /\ \E c \in Range(chars) : EligibleWords(c) # {}

\* the part of C5 about the aggregation state: once all rows are processed,
\* every target character c and non-empty corpus word w containing c has an
\* entry, and its value is the maximum freq over the rows of w.
AggregationIsMax ==
  pc \in {"second", "compared"} =>
    \A c \in Range(chars) : \A w \in EligibleWords(c) :
      /\ DictHas(ByCharGet(bychar, c), w)
      /\ DictGet(ByCharGet(bychar, c), w, 0) = AggFreq(w)

\* C5: after all rows are processed the aggregated frequency of every
\* (target character, word) pair is the maximum freq over the rows of the
\* word, and a second call on the corpus with one row repeated returns the
\* same mapping as the first call.
C5_MaxAndDuplicateRow ==
  /\ AggregationIsMax
  /\ (pc = "compared" /\ kind = "duplicate") => out2 = out

\* C10: a second call on the same rows in another order returns the same
\* mapping as the first call.
C10_RowOrderIndependent ==
  (pc = "compared" /\ kind = "permuted") => out2 = out

(***************************************************************************)
(* read_wordfreq.  A sheet is a sequence of columns [name, cells]; a name  *)
(* is a sequence of tokens (a header word, or " " for a blank); a cell is  *)
(* a number, a text or an empty cell (NaN).                                *)
(***************************************************************************)
MaxCols == 2

word_col_guesses == <<"Word", "word", "wordform", "WordForm", "w", "token">>

freq_col_guesses ==
  <<"WCount", "Freq", "freq", "Frequency", "frequency", "FreqCount", "Count">>

NumCell(n) == [kind |-> "num", num |-> n, text |-> <<>>]
TextCell(t) == [kind |-> "text", num |-> 0, text |-> t]
NaNCell == [kind |-> "nan", num |-> 0, text |-> <<>>]

\* str.strip(): drop the blanks at both ends
RECURSIVE LStrip(_, _)
LStrip(t, blank) ==
  IF t # <<>> /\ Head(t) = blank THEN LStrip(Tail(t), blank) ELSE t

RECURSIVE RStrip(_, _)
RStrip(t, blank) ==
  IF t # <<>> /\ t[Len(t)] = blank THEN RStrip(SubSeq(t, 1, Len(t) - 1), blank) ELSE t

Strip(t, blank) == RStrip(LStrip(t, blank), blank)

\* df.rename(columns={c: c.strip()})
RenameStripped(t) ==
  [j \in DOMAIN t |-> [name |-> Strip(t[j].name, " "), cells |-> t[j].cells]]

Labels(d) == [j \in DOMAIN d |-> d[j].name]

\* a variant of FindCol: the first column whose label is a candidate
FindColByColumnOrder(guesses, labels) ==
  LET hits == SelectSeq(labels, LAMBDA l : \E m \in DOMAIN guesses : l = <<guesses[m]>>)
  IN IF hits = <<>> THEN <<>> ELSE hits[1]

\* for c in guesses: if c in df.columns: col = c; break   (<<>> for None)
RECURSIVE FindCol(_, _)
FindCol(guesses, labels) ==
  IF guesses = <<>> THEN <<>>
  ELSE IF <<Head(guesses)>> \in Range(labels) THEN <<Head(guesses)>>
  ELSE FindCol(Tail(guesses), labels)

\* pd.api.types.is_numeric_dtype(column): an int or float column, that is
\* one with numbers and empty cells only
IsNumericDtype(cells) == \A j \in DOMAIN cells : cells[j].kind \in {"num", "nan"}

\* df['__freq__'] = 1
WithFreqOne(d) ==
  LET n == IF d = <<>> THEN 0 ELSE Len(d[1].cells)
      ones == [j \in 1..n |-> NumCell(1)]
  IN IF \E j \in DOMAIN d : d[j].name = <<"__freq__">>
     THEN [j \in DOMAIN d |->
             IF d[j].name = <<"__freq__">> THEN [name |-> d[j].name, cells |-> ones]
             ELSE d[j]]
     ELSE Append(d, [name |-> <<"__freq__">>, cells |-> ones])

\* the frequency column chosen, and the frame after the choice
ChooseFreq(d) ==
  LET found == FindCol(freq_col_guesses, Labels(d))
  IN IF found # <<>> THEN [col |-> found, df |-> d]
     ELSE IF Len(d) > 1 /\ IsNumericDtype(d[2].cells)
          THEN [col |-> d[2].name, df |-> d]
          ELSE [col |-> <<"__freq__">>, df |-> WithFreqOne(d)]

\* df[[word_col, freq_col]]: every column labelled word_col, then every
\* column labelled freq_col
SelectSeq2(d, label) == SelectSeq(d, LAMBDA c : c.name = label)

Project(d, wc, fc) == SelectSeq2(d, wc) \o SelectSeq2(d, fc)

\* the value of a string of decimal digits
RECURSIVE DigitsValue(_)
DigitsValue(t) ==
  IF t = <<>> THEN 0 ELSE 10 * DigitsValue(SubSeq(t, 1, Len(t) - 1)) + (t[Len(t)] - 48)

IsDigits(t) == t # <<>> /\ \A j \in DOMAIN t : t[j] \in 48..57

\* pd.to_numeric(cell, errors='coerce').fillna(0).astype(int)
ToInt(cell) ==
  IF cell.kind = "num" THEN cell.num
  ELSE IF cell.kind = "text" /\ IsDigits(Strip(cell.text, 32))
       THEN DigitsValue(Strip(cell.text, 32))
       ELSE 0

\* str(n) for n >= 0
RECURSIVE Decimal(_)
Decimal(n) == IF n < 10 THEN <<48 + n>> ELSE Append(Decimal(n \div 10), 48 + (n % 10))

\* astype(str).str.strip() ; str(nan) is "nan"
ToWord(cell) ==
  IF cell.kind = "num" THEN Decimal(cell.num)
  ELSE IF cell.kind = "nan" THEN <<110, 97, 110>>
  ELSE Strip(cell.text, 32)

\* the rows (word, freq) of the two projected columns
Canonical(two) ==
  [j \in DOMAIN two[1].cells |->
     [word |-> ToWord(two[1].cells[j]), freq |-> ToInt(two[2].cells[j])]]

(***************************************************************************)
(* The sheets read.  pandas gives the columns of one sheet different raw   *)
(* names; two can still be equal once stripped.                            *)
(***************************************************************************)
RawNames ==
  {<<"Word">>, <<"token">>, <<"WCount">>, <<"Freq">>, <<"Freq", " ">>, <<"A">>}

ColumnCells ==
  { <<TextCell(<<1, 2>>), TextCell(<<32, 2, 32>>)>>,
    <<NumCell(2), NumCell(1)>>,
    <<NumCell(2), NaNCell>>,
    <<TextCell(<<55>>), TextCell(<<2, 3>>)>> }

Columns == [name : RawNames, cells : ColumnCells]

Sheets ==
  {t \in SeqsUpTo(Columns, MaxCols) :
     \A a \in DOMAIN t : \A b \in DOMAIN t : a # b => t[a].name # t[b].name}

IndexIdle ==
  /\ chars = <<>>
  /\ top_n = 1
  /\ df_sorted = <<>>
  /\ i = 1
  /\ bychar = EmptyMap
  /\ k = 1
  /\ out = EmptyMap
  /\ df_words2 = <<>>
  /\ kind = "none"
  /\ out2 = EmptyMap

idleInReader ==
  <<chars, top_n, df_sorted, i, bychar, k, out, df_words2, kind, out2>>

InitReader ==
  /\ pc = "open"
  /\ path_exists \in BOOLEAN
  /\ table \in Sheets
  /\ df = <<>>
  /\ word_col = <<>>
  /\ freq_col = <<>>
  /\ err = "none"
  /\ df_words = <<>>
  /\ IndexIdle
  /\ MainIdle

\* if not p.exists(): raise FileNotFoundError
OpenMissing ==
  /\ pc = "open"
  /\ ~path_exists
  /\ err' = "FileNotFoundError"
  /\ pc' = "raised"
  /\ UNCHANGED <<path_exists, table, df, word_col, freq_col, df_words, idleInReader, mainVars>>

\* pd.read_excel(p, skiprows=2) and the renaming of the columns
ReadExcel ==
  /\ pc = "open"
  /\ path_exists
  /\ df' = RenameStripped(table)
  /\ pc' = "find_word"
  /\ UNCHANGED <<path_exists, table, word_col, freq_col, err, df_words, idleInReader, mainVars>>

\* the word column; df.columns[0] raises IndexError on a sheet of no columns
FindWordCol ==
  /\ pc = "find_word"
  /\ LET found == FindCol(word_col_guesses, Labels(df))
     IN IF found # <<>>
        THEN word_col' = found /\ pc' = "find_freq" /\ err' = err
        ELSE IF df # <<>>
             THEN word_col' = df[1].name /\ pc' = "find_freq" /\ err' = err
             ELSE word_col' = word_col /\ pc' = "raised" /\ err' = "IndexError"
  /\ UNCHANGED <<path_exists, table, df, freq_col, df_words, idleInReader, mainVars>>

FindFreqCol ==
  /\ pc = "find_freq"
  /\ freq_col' = ChooseFreq(df).col
  /\ df' = ChooseFreq(df).df
  /\ pc' = "project"
  /\ UNCHANGED <<path_exists, table, word_col, err, df_words, idleInReader, mainVars>>

\* df = df[[word_col, freq_col]].copy(); df.columns = ['word', 'freq'] raises
\* ValueError unless exactly two columns were selected
ProjectCols ==
  /\ pc = "project"
  /\ LET two == Project(df, word_col, freq_col)
     IN IF Len(two) = 2
        THEN df' = two /\ pc' = "coerce" /\ err' = err
        ELSE df' = two /\ pc' = "raised" /\ err' = "ValueError"
  /\ UNCHANGED <<path_exists, table, word_col, freq_col, df_words, idleInReader, mainVars>>

CoerceAndReturn ==
  /\ pc = "coerce"
  /\ df_words' = Canonical(df)
  /\ pc' = "read_done"
  /\ UNCHANGED <<path_exists, table, df, word_col, freq_col, err, idleInReader, mainVars>>

NextReader ==
  \/ OpenMissing
  \/ ReadExcel
  \/ FindWordCol
  \/ FindFreqCol
  \/ ProjectCols
  \/ CoerceAndReturn

SpecReader == InitReader /\ [][NextReader]_vars

\* read_wordfreq as a whole: the exception raised or the rows returned
ReadWordfreq(exists, t) ==
  IF ~exists THEN [err |-> "FileNotFoundError", rows |-> <<>>]
  ELSE LET d == RenameStripped(t)
           found == FindCol(word_col_guesses, Labels(d))
       IN IF found = <<>> /\ d = <<>> THEN [err |-> "IndexError", rows |-> <<>>]
          ELSE LET wc == IF found # <<>> THEN found ELSE d[1].name
                   fq == ChooseFreq(d)
                   two == Project(fq.df, wc, fq.col)
               IN IF Len(two) # 2 THEN [err |-> "ValueError", rows |-> <<>>]
                  ELSE [err |-> "none", rows |-> Canonical(two)]

(***************************************************************************)
(* main.  A line of the chars file is a string; 32 is the blank.  The      *)
(* conversion of opencc maps a word character by character; here the       *)
(* traditional character 3 has the simplified form 1.                      *)
(***************************************************************************)
MaxLines == 2

FileLines == {<<>>, <<32>>, <<2>>, <<32, 1, 32>>, <<1, 2>>, <<4>>}

WordCells == <<TextCell(<<1, 2>>), TextCell(<<32, 2, 32>>)>>
MixedCells == <<TextCell(<<55>>), TextCell(<<2, 3>>)>>
CountCells == <<NumCell(2), NumCell(1)>>

MainSheets ==
  { <<>>,
    <<[name |-> <<"A">>, cells |-> WordCells]>>,
    <<[name |-> <<"Word">>, cells |-> WordCells],
      [name |-> <<"WCount">>, cells |-> CountCells]>>,
    <<[name |-> <<"Freq", " ">>, cells |-> CountCells],
      [name |-> <<"token">>, cells |-> MixedCells]>>,
    <<[name |-> <<"Freq">>, cells |-> CountCells],
      [name |-> <<"Freq", " ">>, cells |-> CountCells]>> }

\* opencc.convert(s) with OpenCC('t2s')
T2S(c) == IF c = 3 THEN 1 ELSE c

OpenccConvert(w) == [j \in DOMAIN w |-> T2S(w[j])]

\* df_words['word'] = df_words['word'].apply(lambda s: opencc.convert(s))
ConvertWords(rows) ==
  [j \in DOMAIN rows |-> [word |-> OpenccConvert(rows[j].word), freq |-> rows[j].freq]]

\* [line.strip() for line in f if line.strip()]
StrippedNonEmpty(ls) ==
  LET stripped == [j \in DOMAIN ls |-> Strip(ls[j], 32)]
  IN SelectSeq(stripped, LAMBDA c : c # <<>>)

\* bad = [c for c in chars if len(c) == 0 or len(c) > 1]
BadChars(cs) == SelectSeq(cs, LAMBDA c : Len(c) = 0 \/ Len(c) > 1)

\* a variant of SingleChars: the bad lines kept
SingleCharsKeepAll(cs) == cs

\* chars = [c for c in chars if len(c) == 1]
SingleChars(cs) == SelectSeq(cs, LAMBDA c : Len(c) = 1)

idleInMain == <<df_sorted, i, bychar, k, df_words2, kind, out2, df, word_col, freq_col>>

InitMain ==
  /\ pc = "m_start"
  /\ chars_exists \in BOOLEAN
  /\ lines \in SeqsUpTo(FileLines, MaxLines)
  /\ path_exists \in BOOLEAN
  /\ table \in MainSheets
  /\ top_n \in 1..MaxTopN
  /\ convert \in BOOLEAN
  /\ opencc \in {"none", "t2s"}
  /\ warned = FALSE
  /\ out_file = "untouched"
  /\ err = "none"
  /\ chars = <<>>
  /\ df_words = <<>>
  /\ df_sorted = <<>>
  /\ i = 1
  /\ bychar = EmptyMap
  /\ k = 1
  /\ out = EmptyMap
  /\ df_words2 = <<>>
  /\ kind = "none"
  /\ out2 = EmptyMap
  /\ df = <<>>
  /\ word_col = <<>>
  /\ freq_col = <<>>

\* if not chars_path.exists(): sys.exit(2)
MainCharsMissing ==
  /\ pc = "m_start"
  /\ ~chars_exists
  /\ err' = "SystemExit2"
  /\ pc' = "exited"
  /\ UNCHANGED <<chars, df_words, top_n, out, path_exists, table, mainVars, idleInMain>>

MainReadChars ==
  /\ pc = "m_start"
  /\ chars_exists
  /\ chars' = StrippedNonEmpty(lines)
  /\ pc' = "m_validate"
  /\ UNCHANGED <<df_words, top_n, out, path_exists, table, err, mainVars, idleInMain>>

MainValidate ==
  /\ pc = "m_validate"
  /\ IF BadChars(chars) # <<>>
     THEN warned' = TRUE /\ chars' = SingleChars(chars)
     ELSE warned' = warned /\ chars' = chars
  /\ pc' = "m_read"
  /\ UNCHANGED <<df_words, top_n, out, path_exists, table, err, idleInMain,
                 chars_exists, lines, convert, opencc, out_file>>

\* df_words = read_wordfreq(args.subtlex); an exception ends the run
MainReadWordfreq ==
  /\ pc = "m_read"
  /\ LET r == ReadWordfreq(path_exists, table)
     IN IF r.err = "none"
        THEN df_words' = r.rows /\ err' = err /\ pc' = "m_build"
        ELSE df_words' = df_words /\ err' = r.err /\ pc' = "exited"
  /\ UNCHANGED <<chars, top_n, out, path_exists, table, mainVars, idleInMain>>

\* a variant of MainBuildIndex: a conversion that is not available is
\* skipped instead of raising
MainBuildIndexSkipsConvert ==
  /\ pc = "m_build"
  /\ df_words' = IF convert /\ opencc # "none" THEN ConvertWords(df_words) ELSE df_words
  /\ out' \in BuildOutcomes(chars,
                IF convert /\ opencc # "none" THEN ConvertWords(df_words) ELSE df_words,
                top_n)
  /\ err' = err
  /\ pc' = "m_write"
  /\ UNCHANGED <<chars, top_n, path_exists, table, mainVars, idleInMain>>

\* index = build_index(chars, df_words, top_n=args.topn,
\*                     convert_to_simplified=args.convert)
MainBuildIndex ==
  /\ pc = "m_build"
  /\ IF convert /\ opencc = "none"
     THEN err' = "RuntimeError" /\ pc' = "exited" /\ UNCHANGED <<df_words, out>>
     ELSE /\ df_words' = IF convert THEN ConvertWords(df_words) ELSE df_words
          /\ out' \in BuildOutcomes(chars,
                        IF convert THEN ConvertWords(df_words) ELSE df_words, top_n)
          /\ err' = err
          /\ pc' = "m_write"
  /\ UNCHANGED <<chars, top_n, path_exists, table, mainVars, idleInMain>>

\* with open(out_path, 'w') as fo: json.dump(index, fo, ...)
MainWrite ==
  /\ pc = "m_write"
  /\ out_file' = "written"
  /\ pc' = "m_done"
  /\ UNCHANGED <<chars, df_words, top_n, out, path_exists, table, err, idleInMain,
                 chars_exists, lines, convert, opencc, warned>>

NextMain ==
  \/ MainCharsMissing
  \/ MainReadChars
  \/ MainValidate
  \/ MainReadWordfreq
  \/ MainBuildIndex
  \/ MainWrite

SpecMain == InitMain /\ [][NextMain]_vars

(***************************************************************************)
(* The claims about read_wordfreq and main.                                *)
(***************************************************************************)
\* the column headers of the sheet, as the reader normalises them
Headers == [j \in DOMAIN table |-> Strip(table[j].name, " ")]

SomeCandidate(guesses) == \E m \in DOMAIN guesses : <<guesses[m]>> \in Range(Headers)

\* the first name of the candidate list that is a header
FirstCandidate(guesses) ==
  LET m == CHOOSE a \in DOMAIN guesses :
             /\ <<guesses[a]>> \in Range(Headers)
             /\ \A b \in 1..(a - 1) : <<guesses[b]>> \notin Range(Headers)
  IN <<guesses[m]>>

\* there is a second column and its values are numbers (or empty cells)
NumericSecondColumn ==
  /\ Len(table) >= 2
  /\ \A j \in DOMAIN table[2].cells : table[2].cells[j].kind # "text"

\* C7: the frequency column is the first candidate name that is a header;
\* failing that the second column if it exists and is numeric; failing that
\* every record gets frequency 1.  The word column is the first candidate
\* name that is a header, else the first column.
C7_ColumnSelection ==
  /\ pc \in {"find_freq", "project", "coerce", "read_done"} =>
       word_col = IF SomeCandidate(word_col_guesses)
                  THEN FirstCandidate(word_col_guesses)
                  ELSE Headers[1]
  /\ pc \in {"project", "coerce", "read_done"} =>
       freq_col = IF SomeCandidate(freq_col_guesses)
                  THEN FirstCandidate(freq_col_guesses)
                  ELSE IF NumericSecondColumn THEN Headers[2]
                  ELSE <<"__freq__">>
  /\ (pc = "read_done" /\ ~SomeCandidate(freq_col_guesses) /\ ~NumericSecondColumn) =>
       \A j \in DOMAIN df_words : df_words[j].freq = 1

C7_Witness ==
  /\ pc = "read_done"
  /\ Len(table) = 2
  /\ Headers = << <<"Freq">>, <<"WCount">> >>
  /\ word_col = <<"Freq">>
  /\ freq_col = <<"WCount">>

\* no candidate name is a header and there is no numeric second column
NoIdentifiableColumns ==
  /\ ~SomeCandidate(word_col_guesses)
  /\ ~SomeCandidate(freq_col_guesses)
  /\ ~NumericSecondColumn

\* C8: a run on a sheet with no identifiable column ends in a fatal error
\* and writes no index.
C8_FatalWhenNoColumns ==
  (pc \in {"m_done", "exited"} /\ NoIdentifiableColumns) =>
    (pc = "exited" /\ err # "none" /\ out_file = "untouched")

\* C6: the output file is written only when the chars file was read, the
\* corpus was read and the index was built without a fatal error; a missing
\* chars file, a missing corpus file, or a requested conversion without
\* opencc leave the output file untouched.
C6_NoOutputOnFatal ==
  /\ out_file = "written" =>
       /\ pc = "m_done"
       /\ err = "none"
       /\ chars_exists
       /\ path_exists
       /\ ~(convert /\ opencc = "none")
       /\ ReadWordfreq(path_exists, table).err = "none"
  /\ (~chars_exists \/ ~path_exists \/ (convert /\ opencc = "none")) =>
       (out_file = "untouched" /\ pc # "m_done" /\ pc # "m_write")

C6_Witness ==
  /\ pc = "exited"
  /\ err = "RuntimeError"
  /\ chars_exists
  /\ path_exists
  /\ out_file = "untouched"

\* the trimmed lines of the chars file
TrimmedLines == [j \in DOMAIN lines |-> Strip(lines[j], 32)]

\* C9: the characters given to build_index are the trimmed lines of length
\* 1 in file order; a warning is printed when some trimmed line has more
\* than one character; the run is not ended by such a line, and a run that
\* completes writes the index of the remaining characters.
C9_BadLinesDropped ==
  /\ pc \in {"m_read", "m_build", "m_write", "m_done"} =>
       /\ chars = SelectSeq(TrimmedLines, LAMBDA c : Len(c) = 1)
       /\ warned <=> (\E j \in DOMAIN lines : Len(TrimmedLines[j]) > 1)
       /\ err = "none"
  /\ pc \in {"m_write", "m_done"} =>
       DOMAIN out = {TrimmedLines[j] : j \in {m \in DOMAIN lines : Len(TrimmedLines[m]) = 1}}
  /\ pc = "m_done" => out_file = "written"
  /\ (pc = "exited" /\ chars_exists) =>
       err \in {"FileNotFoundError", "IndexError", "ValueError", "RuntimeError"}

C9_Witness ==
  /\ pc = "m_done"
  /\ warned
  /\ out_file = "written"
  /\ \E j \in DOMAIN lines : Len(lines[j]) > 1 /\ Len(TrimmedLines[j]) = 1
  /\ \E c \in DOMAIN out : out[c] # <<>>
====
